---- MODULE Spec2Model ----
(***************************************************************************)
(* SparseMatrix.py: a sparse matrix kept as a dict from the string key     *)
(* "row,col" to an integer value, with add / subtract / multiply and a     *)
(* text form that is written to and parsed from files.                     *)
(*                                                                         *)
(* Python strings are modelled as sequences of one-character strings, so   *)
(* that building a key, splitting it and converting it back to integers    *)
(* are computed as the code computes them.  A dict is modelled as the      *)
(* sequence of its <<key, value>> items in insertion order.                *)
(***************************************************************************)
EXTENDS Integers, Sequences, FiniteSets, TLC

VARIABLES heap, written, nwrites, fs, last

vars == <<heap, written, nwrites, fs, last>>

-----------------------------------------------------------------------------
(* Bounds of the model *)

\* at most this many client calls of set_element are made
MaxWrites == 3

-----------------------------------------------------------------------------
(* str and int *)

Digits == <<"0", "1", "2", "3", "4", "5", "6", "7", "8", "9">>

Whitespace == {" ", "\n", "\t"}

IsDigit(ch) == \E i \in 1..10 : Digits[i] = ch

DigitValue(ch) == (CHOOSE i \in 1..10 : Digits[i] = ch) - 1

RECURSIVE NatToStr(_)
NatToStr(n) ==
    IF n < 10 THEN <<Digits[n + 1]>>
    ELSE NatToStr(n \div 10) \o <<Digits[(n % 10) + 1]>>

\* str(n) / f"{n}" of a Python int
IntToStr(n) == IF n < 0 THEN <<"-">> \o NatToStr(-n) ELSE NatToStr(n)

RECURSIVE LStrip(_)
LStrip(s) ==
    IF s # <<>> /\ Head(s) \in Whitespace THEN LStrip(Tail(s)) ELSE s

RECURSIVE RStrip(_)
RStrip(s) ==
    IF s # <<>> /\ s[Len(s)] \in Whitespace
    THEN RStrip(SubSeq(s, 1, Len(s) - 1))
    ELSE s

\* s.strip()
Strip(s) == RStrip(LStrip(s))

RECURSIVE DigitsToNat(_)
DigitsToNat(s) ==
    IF s = <<>> THEN 0
    ELSE 10 * DigitsToNat(SubSeq(s, 1, Len(s) - 1)) + DigitValue(s[Len(s)])

AllDigits(s) == s # <<>> /\ \A i \in 1..Len(s) : IsDigit(s[i])

\* int(s) without the stripping: " 12" is refused
StrToIntUnstripped(s) ==
    LET sign == s # <<>> /\ Head(s) \in {"-", "+"}
        body == IF sign THEN Tail(s) ELSE s
    IN  IF AllDigits(body)
        THEN [ok  |-> TRUE,
              val |-> IF sign /\ Head(s) = "-" THEN -DigitsToNat(body)
                      ELSE DigitsToNat(body)]
        ELSE [ok |-> FALSE, val |-> 0]

\* int(s): surrounding whitespace is dropped, one optional sign, then digits
\* only; anything else raises ValueError (ok = FALSE)
StrToInt(s) ==
    LET t    == Strip(s)
        sign == t # <<>> /\ Head(t) \in {"-", "+"}
        body == IF sign THEN Tail(t) ELSE t
    IN  IF AllDigits(body)
        THEN [ok  |-> TRUE,
              val |-> IF sign /\ Head(t) = "-" THEN -DigitsToNat(body)
                      ELSE DigitsToNat(body)]
        ELSE [ok |-> FALSE, val |-> 0]

RECURSIVE SplitFrom(_, _, _)
SplitFrom(s, sep, cur) ==
    IF s = <<>> THEN <<cur>>
    ELSE IF Head(s) = sep THEN <<cur>> \o SplitFrom(Tail(s), sep, <<>>)
    ELSE SplitFrom(Tail(s), sep, Append(cur, Head(s)))

\* s.split(sep) for a one-character separator
Split(s, sep) == SplitFrom(s, sep, <<>>)

RECURSIVE Join(_, _)
\* sep.join(parts)
Join(parts, sep) ==
    IF parts = <<>> THEN <<>>
    ELSE IF Len(parts) = 1 THEN parts[1]
    ELSE parts[1] \o <<sep>> \o Join(Tail(parts), sep)

StartsWith(s, ch) == s # <<>> /\ Head(s) = ch

EndsWith(s, ch) == s # <<>> /\ s[Len(s)] = ch

-----------------------------------------------------------------------------
(* dict: the items <<key, value>> in insertion order, keys unique *)

DictKeys(d) == {d[i][1] : i \in 1..Len(d)}

DictHas(d, key) == \E i \in 1..Len(d) : d[i][1] = key

\* d.get(key, default)
DictGet(d, key, default) ==
    IF DictHas(d, key)
    THEN d[CHOOSE i \in 1..Len(d) : d[i][1] = key][2]
    ELSE default

\* d[key] = value: an existing key keeps its position, a new key goes last
DictSet(d, key, value) ==
    IF DictHas(d, key)
    THEN [i \in 1..Len(d) |-> IF d[i][1] = key THEN <<key, value>> ELSE d[i]]
    ELSE Append(d, <<key, value>>)

-----------------------------------------------------------------------------
(* SparseMatrix objects live on a heap: a sequence of objects, an object's   *)
(* reference being its index.  The methods take the heap and references and  *)
(* give back the heap they leave.                                            *)

\* __init__: the fields of a new object
SparseMatrix(num_rows, num_cols) ==
    [elements |-> <<>>, num_rows |-> num_rows, num_cols |-> num_cols]

\* SparseMatrix(num_rows, num_cols): a new object, at a new reference
New(h, num_rows, num_cols) ==
    [heap |-> Append(h, SparseMatrix(num_rows, num_cols)), ref |-> Len(h) + 1]

\* key = f"{row},{col}"
KeyOf(row, col) == IntToStr(row) \o <<",">> \o IntToStr(col)

\* set_element growing the shape only past it: > where the code has >=
set_element_growing_late(h, self, row, col, value) ==
    [h EXCEPT ![self] =
        [elements |-> DictSet(h[self].elements, KeyOf(row, col), value),
         num_rows |-> IF row > h[self].num_rows THEN row + 1
                      ELSE h[self].num_rows,
         num_cols |-> IF col > h[self].num_cols THEN col + 1
                      ELSE h[self].num_cols]]

\* set_element keeping the dict sparse: a value of 0 is not stored
set_element_skipping_zero(h, self, row, col, value) ==
    IF value = 0 THEN h
    ELSE [h EXCEPT ![self] =
            [elements |-> DictSet(h[self].elements, KeyOf(row, col), value),
             num_rows |-> IF row >= h[self].num_rows THEN row + 1
                          ELSE h[self].num_rows,
             num_cols |-> IF col >= h[self].num_cols THEN col + 1
                          ELSE h[self].num_cols]]

set_element(h, self, row, col, value) ==
    [h EXCEPT ![self] =
        [elements |-> DictSet(h[self].elements, KeyOf(row, col), value),
         num_rows |-> IF row >= h[self].num_rows THEN row + 1
                      ELSE h[self].num_rows,
         num_cols |-> IF col >= h[self].num_cols THEN col + 1
                      ELSE h[self].num_cols]]

get_element(h, self, row, col) == DictGet(h[self].elements, KeyOf(row, col), 0)

\* row, col = map(int, key.split(',')): ValueError (ok = FALSE) unless the key
\* splits into exactly two parts that int() accepts
ParseKey(key) ==
    LET parts == Split(key, ",")
        row   == StrToInt(parts[1])
        col   == StrToInt(parts[2])
    IN  IF Len(parts) = 2 /\ row.ok /\ col.ok
        THEN [ok |-> TRUE, row |-> row.val, col |-> col.val]
        ELSE [ok |-> FALSE, row |-> 0, col |-> 0]

\* how a call ends: it returns the object at ref, or raises; heap is the heap
\* it leaves
Returned(h, ref) == [err |-> "", heap |-> h, ref |-> ref]

Raised(h, kind) == [err |-> kind, heap |-> h, ref |-> 0]

RECURSIVE AddSelfLoop(_, _, _, _)
\* add, first loop: copy every item of self into result
AddSelfLoop(h, result, items, i) ==
    IF i > Len(items) THEN Returned(h, result)
    ELSE LET k == ParseKey(items[i][1])
         IN  IF ~k.ok THEN Raised(h, "ValueError")
             ELSE AddSelfLoop(set_element(h, result, k.row, k.col, items[i][2]),
                              result, items, i + 1)

RECURSIVE AddOtherLoop(_, _, _, _)
\* add, second loop: add every item of other onto what result holds
AddOtherLoop(h, result, items, i) ==
    IF i > Len(items) THEN Returned(h, result)
    ELSE LET k == ParseKey(items[i][1])
         IN  IF ~k.ok THEN Raised(h, "ValueError")
             ELSE AddOtherLoop(
                      set_element(h, result, k.row, k.col,
                                  get_element(h, result, k.row, k.col)
                                      + items[i][2]),
                      result, items, i + 1)

\* add with the second loop storing other's value instead of the sum
add_overwriting(h, self, other) ==
    IF h[self].num_rows # h[other].num_rows
          \/ h[self].num_cols # h[other].num_cols
    THEN Raised(h, "ValueError")
    ELSE LET result == New(h, h[self].num_rows, h[self].num_cols)
             copied == AddSelfLoop(result.heap, result.ref, h[self].elements, 1)
         IN  IF copied.err # "" THEN copied
             ELSE AddSelfLoop(copied.heap, result.ref,
                              copied.heap[other].elements, 1)

\* add with the shape check on the rows alone
add_rows_only(h, self, other) ==
    IF h[self].num_rows # h[other].num_rows
    THEN Raised(h, "ValueError")
    ELSE LET result == New(h, h[self].num_rows, h[self].num_cols)
             copied == AddSelfLoop(result.heap, result.ref, h[self].elements, 1)
         IN  IF copied.err # "" THEN copied
             ELSE AddOtherLoop(copied.heap, result.ref,
                               copied.heap[other].elements, 1)

\* add accumulating into self and returning it, with no new object
add_in_place(h, self, other) ==
    IF h[self].num_rows # h[other].num_rows
          \/ h[self].num_cols # h[other].num_cols
    THEN Raised(h, "ValueError")
    ELSE AddOtherLoop(h, self, h[other].elements, 1)

add(h, self, other) ==
    IF h[self].num_rows # h[other].num_rows
          \/ h[self].num_cols # h[other].num_cols
    THEN Raised(h, "ValueError")
    ELSE LET result == New(h, h[self].num_rows, h[self].num_cols)
             copied == AddSelfLoop(result.heap, result.ref, h[self].elements, 1)
         IN  IF copied.err # "" THEN copied
             ELSE AddOtherLoop(copied.heap, result.ref,
                               copied.heap[other].elements, 1)

RECURSIVE SubtractLoop(_, _, _, _, _)
\* subtract: one loop, over the items of other only
SubtractLoop(h, result, self, items, i) ==
    IF i > Len(items) THEN Returned(h, result)
    ELSE LET k == ParseKey(items[i][1])
         IN  IF ~k.ok THEN Raised(h, "ValueError")
             ELSE SubtractLoop(
                      set_element(h, result, k.row, k.col,
                                  get_element(h, self, k.row, k.col)
                                      - items[i][2]),
                      result, self, items, i + 1)

\* subtract over the union of the keys: self copied first, then other taken off
subtract_union(h, self, other) ==
    IF h[self].num_rows # h[other].num_rows
          \/ h[self].num_cols # h[other].num_cols
    THEN Raised(h, "ValueError")
    ELSE LET result == New(h, h[self].num_rows, h[self].num_cols)
             copied == AddSelfLoop(result.heap, result.ref, h[self].elements, 1)
         IN  IF copied.err # "" THEN copied
             ELSE SubtractLoop(copied.heap, result.ref, self,
                               h[other].elements, 1)

subtract(h, self, other) ==
    IF h[self].num_rows # h[other].num_rows
          \/ h[self].num_cols # h[other].num_cols
    THEN Raised(h, "ValueError")
    ELSE LET result == New(h, h[self].num_rows, h[self].num_cols)
         IN  SubtractLoop(result.heap, result.ref, self, h[other].elements, 1)

RECURSIVE MultiplyInnerStoring(_, _, _, _, _, _, _)
\* the inner loop storing each product instead of accumulating it
MultiplyInnerStoring(h, result, row1, col1, value1, items2, j) ==
    IF j > Len(items2) THEN Returned(h, result)
    ELSE LET k2 == ParseKey(items2[j][1])
         IN  IF ~k2.ok THEN Raised(h, "ValueError")
             ELSE MultiplyInnerStoring(
                      IF col1 = k2.row
                      THEN set_element(h, result, row1, k2.col,
                                       value1 * items2[j][2])
                      ELSE h,
                      result, row1, col1, value1, items2, j + 1)

RECURSIVE MultiplyInnerMatchingRows(_, _, _, _, _, _, _)
\* the inner loop pairing the entries on row1 = row2
MultiplyInnerMatchingRows(h, result, row1, col1, value1, items2, j) ==
    IF j > Len(items2) THEN Returned(h, result)
    ELSE LET k2 == ParseKey(items2[j][1])
         IN  IF ~k2.ok THEN Raised(h, "ValueError")
             ELSE MultiplyInnerMatchingRows(
                      IF row1 = k2.row
                      THEN set_element(h, result, row1, k2.col,
                               get_element(h, result, row1, k2.col)
                                   + value1 * items2[j][2])
                      ELSE h,
                      result, row1, col1, value1, items2, j + 1)

RECURSIVE MultiplyInner(_, _, _, _, _, _, _)
\* multiply, inner loop: the items of other against one item of self
MultiplyInner(h, result, row1, col1, value1, items2, j) ==
    IF j > Len(items2) THEN Returned(h, result)
    ELSE LET k2 == ParseKey(items2[j][1])
         IN  IF ~k2.ok THEN Raised(h, "ValueError")
             ELSE MultiplyInner(
                      IF col1 = k2.row
                      THEN set_element(h, result, row1, k2.col,
                               get_element(h, result, row1, k2.col)
                                   + value1 * items2[j][2])
                      ELSE h,
                      result, row1, col1, value1, items2, j + 1)

RECURSIVE MultiplyOuter(_, _, _, _, _)
\* multiply, outer loop: the items of self
MultiplyOuter(h, result, items1, items2, i) ==
    IF i > Len(items1) THEN Returned(h, result)
    ELSE LET k1 == ParseKey(items1[i][1])
         IN  IF ~k1.ok THEN Raised(h, "ValueError")
             ELSE LET inner == MultiplyInner(h, result, k1.row, k1.col,
                                             items1[i][2], items2, 1)
                  IN  IF inner.err # "" THEN inner
                      ELSE MultiplyOuter(inner.heap, result, items1, items2,
                                         i + 1)

\* multiply giving the result the shape of self
multiply_shape_of_self(h, self, other) ==
    IF h[self].num_cols # h[other].num_rows
    THEN Raised(h, "ValueError")
    ELSE LET result == New(h, h[self].num_rows, h[self].num_cols)
         IN  MultiplyOuter(result.heap, result.ref,
                           h[self].elements, h[other].elements, 1)

multiply(h, self, other) ==
    IF h[self].num_cols # h[other].num_rows
    THEN Raised(h, "ValueError")
    ELSE LET result == New(h, h[self].num_rows, h[other].num_cols)
         IN  MultiplyOuter(result.heap, result.ref,
                           h[self].elements, h[other].elements, 1)

-----------------------------------------------------------------------------
(* text form *)

RowsPrefix == <<"r", "o", "w", "s", "=">>

ColsPrefix == <<"c", "o", "l", "s", "=">>

\* one line of __str__: row, col = key.split(','); f"({row}, {col}, {value})"
ElementLine(item) ==
    LET parts == Split(item[1], ",")
    IN  <<"(">> \o parts[1] \o <<",", " ">> \o parts[2] \o <<",", " ">>
            \o IntToStr(item[2]) \o <<")">>

\* __str__: the two header lines, then one line per item, joined by "\n"
ToStr(m) ==
    Join(<<RowsPrefix \o IntToStr(m.num_rows),
           ColsPrefix \o IntToStr(m.num_cols)>>
             \o [i \in 1..Len(m.elements) |-> ElementLine(m.elements[i])],
         "\n")

RECURSIVE ReadLinesFrom(_, _)
ReadLinesFrom(s, cur) ==
    IF s = <<>> THEN (IF cur = <<>> THEN <<>> ELSE <<cur>>)
    ELSE IF Head(s) = "\n"
         THEN <<Append(cur, "\n")>> \o ReadLinesFrom(Tail(s), <<>>)
         ELSE ReadLinesFrom(Tail(s), Append(cur, Head(s)))

\* file.readlines(): the lines of the text, each with its "\n" when it has one
ReadLines(text) == ReadLinesFrom(text, <<>>)

RECURSIVE NonBlankStripped(_)
\* [line.strip() for line in lines if line.strip()]
NonBlankStripped(lines) ==
    IF lines = <<>> THEN <<>>
    ELSE IF Strip(Head(lines)) = <<>> THEN NonBlankStripped(Tail(lines))
    ELSE <<Strip(Head(lines))>> \o NonBlankStripped(Tail(lines))

\* _parse_matrix_file on a file that exists
ParseMatrixFile(text) == NonBlankStripped(ReadLines(text))

\* int(line.split('=')[1]): IndexError or ValueError gives ok = FALSE
ParseDimension(line) ==
    LET parts == Split(line, "=")
    IN  IF Len(parts) >= 2 THEN StrToInt(parts[2])
        ELSE [ok |-> FALSE, val |-> 0]

RECURSIVE FromFileLoop(_, _, _, _)
\* from_file, the loop over lines[2:]
FromFileLoop(h, matrix, lines, i) ==
    IF i > Len(lines) THEN Returned(h, matrix)
    ELSE LET line == lines[i]
         IN  IF ~StartsWith(line, "(") \/ ~EndsWith(line, ")")
             THEN Raised(h, "ValueError")
             ELSE LET elements == Split(SubSeq(line, 2, Len(line) - 1), ",")
                      row      == StrToInt(elements[1])
                      col      == StrToInt(elements[2])
                      value    == StrToInt(elements[3])
                  IN  IF Len(elements) >= 3 /\ row.ok /\ col.ok /\ value.ok
                      THEN FromFileLoop(
                               set_element(h, matrix, row.val, col.val,
                                           value.val),
                               matrix, lines, i + 1)
                      ELSE Raised(h, "ValueError")

\* from_file on the entry of the file system at the path
from_file(h, file) ==
    IF ~file.exists THEN Raised(h, "FileNotFoundError")
    ELSE LET lines == ParseMatrixFile(file.text)
         IN  IF Len(lines) < 2 THEN Raised(h, "ValueError")
             ELSE LET num_rows == ParseDimension(lines[1])
                      num_cols == ParseDimension(lines[2])
                  IN  IF ~num_rows.ok \/ ~num_cols.ok
                      THEN Raised(h, "ValueError")
                      ELSE LET matrix == New(h, num_rows.val, num_cols.val)
                           IN  FromFileLoop(matrix.heap, matrix.ref, lines, 3)

\* save_to_file: open(path, 'w') truncates, then str(self) is written
save_to_file(files, m, path) ==
    [files EXCEPT ![path] = [exists |-> TRUE, text |-> ToStr(m)]]

-----------------------------------------------------------------------------
(* The program state *)

\* heap     the matrices the caller holds, matrix1 and matrix2 of
\*          do_some_operations, as objects 1 and 2
\* written  per object, the <<row, col, value>> of the caller's latest
\*          set_element on each coordinate (the calls made, not the dict)
\* nwrites  the number of set_element calls the caller has made
\* fs       the files: path -> [exists, text]
\* last     the latest call: its name, arguments and outcome (the exception
\*          raised, or the reference and the fields of the object returned)

OutPath == "out.txt"

GrowPath == "grow.txt"

ShortPath == "short.txt"

HeaderPath == "header.txt"

Paths == {OutPath, GrowPath, ShortPath, HeaderPath}

\* rows=1 / cols=1 with an element outside that shape, a blank line and
\* padded fields
GrowText ==
    <<"r", "o", "w", "s", "=", "1", "\n",
      "c", "o", "l", "s", "=", "1", "\n",
      "\n",
      "(", "1", ",", " ", "2", ",", "-", "5", ")", " ", "\n">>

\* an element line with two fields only
ShortText ==
    <<"r", "o", "w", "s", "=", "2", "\n",
      "c", "o", "l", "s", "=", "2", "\n",
      "(", "1", ",", "2", ")">>

\* rows=abc
HeaderText ==
    <<"r", "o", "w", "s", "=", "a", "b", "c", "\n",
      "c", "o", "l", "s", "=", "2">>

NoCall ==
    [op |-> "", self |-> 0, other |-> 0, path |-> "",
     row |-> 0, col |-> 0, value |-> 0,
     err |-> "", ref |-> 0, ret |-> SparseMatrix(0, 0)]

\* the caller has constructed its two matrices, with shapes from shapes
InitWith(shapes) ==
    /\ \E s1 \in shapes, s2 \in shapes :
           heap = New(New(<<>>, s1[1], s1[2]).heap, s2[1], s2[2]).heap
    /\ written = <<{}, {}>>
    /\ nwrites = 0
    /\ fs = [p \in Paths |->
                CASE p = GrowPath   -> [exists |-> TRUE, text |-> GrowText]
                  [] p = ShortPath  -> [exists |-> TRUE, text |-> ShortText]
                  [] p = HeaderPath -> [exists |-> TRUE, text |-> HeaderText]
                  [] OTHER          -> [exists |-> FALSE, text |-> <<>>]]
    /\ last = NoCall

\* a call that returns a new matrix or raises: the caller's objects are as the
\* call leaves them, and the outcome is noted
Outcome(r, call) ==
    /\ heap' = SubSeq(r.heap, 1, Len(heap))
    /\ last' = [call EXCEPT !.err = r.err, !.ref = r.ref,
                            !.ret = IF r.ref \in DOMAIN r.heap
                                    THEN r.heap[r.ref] ELSE SparseMatrix(0, 0)]

\* heap[id].set_element(row, col, value)
SetElement(id, row, col, value) ==
    /\ id \in DOMAIN heap
    /\ nwrites < MaxWrites
    /\ heap' = set_element(heap, id, row, col, value)
    /\ written' = [written EXCEPT ![id] =
                      {t \in @ : <<t[1], t[2]>> # <<row, col>>}
                          \cup {<<row, col, value>>}]
    /\ nwrites' = nwrites + 1
    /\ last' = [NoCall EXCEPT !.op = "set_element", !.self = id,
                              !.row = row, !.col = col, !.value = value]
    /\ UNCHANGED fs

\* heap[a].add(heap[b])
Add(a, b) ==
    /\ a \in DOMAIN heap /\ b \in DOMAIN heap
    /\ Outcome(add(heap, a, b),
               [NoCall EXCEPT !.op = "add", !.self = a, !.other = b])
    /\ UNCHANGED <<written, nwrites, fs>>

\* heap[a].subtract(heap[b])
Subtract(a, b) ==
    /\ a \in DOMAIN heap /\ b \in DOMAIN heap
    /\ Outcome(subtract(heap, a, b),
               [NoCall EXCEPT !.op = "subtract", !.self = a, !.other = b])
    /\ UNCHANGED <<written, nwrites, fs>>

\* heap[a].multiply(heap[b])
Multiply(a, b) ==
    /\ a \in DOMAIN heap /\ b \in DOMAIN heap
    /\ Outcome(multiply(heap, a, b),
               [NoCall EXCEPT !.op = "multiply", !.self = a, !.other = b])
    /\ UNCHANGED <<written, nwrites, fs>>

\* heap[id].save_to_file(path)
SaveToFile(id, path) ==
    /\ id \in DOMAIN heap
    /\ fs' = save_to_file(fs, heap[id], path)
    /\ last' = [NoCall EXCEPT !.op = "save_to_file", !.self = id,
                              !.path = path]
    /\ UNCHANGED <<heap, written, nwrites>>

\* SparseMatrix.from_file(path); the paths of the model hold no backslash,
\* so the replace("\\", "/") of _parse_matrix_file leaves them as they are
FromFile(path) ==
    /\ Outcome(from_file(heap, fs[path]),
               [NoCall EXCEPT !.op = "from_file", !.path = path])
    /\ UNCHANGED <<written, nwrites, fs>>

-----------------------------------------------------------------------------
(* Specifications: the same calls, made with arguments from different sets *)

\* Spec: the arithmetic of matrices over a 2 x 2 index range; the caller
\* calls matrix1.op(matrix2) or matrix1.op(matrix1)
Shapes == {<<1, 1>>, <<2, 2>>}

Indices == {0, 1}

Values == {-1, 1}

Init == InitWith(Shapes)

Next ==
    \/ \E id \in DOMAIN heap, r \in Indices, c \in Indices, v \in Values :
           SetElement(id, r, c, v)
    \/ \E b \in DOMAIN heap : Add(1, b)
    \/ \E b \in DOMAIN heap : Subtract(1, b)
    \/ \E b \in DOMAIN heap : Multiply(1, b)

Spec == Init /\ [][Next]_vars

\* SpecIdentity: products with identity matrices, over cells that include a
\* negative column
IdentityShapes == {<<1, 1>>, <<2, 2>>}

IdentityCells == {<<0, 0>>, <<1, 1>>, <<0, 1>>, <<1, -1>>}

IdentityValues == {1, -1}

InitIdentity == InitWith(IdentityShapes)

NextIdentity ==
    \/ \E id \in DOMAIN heap, cell \in IdentityCells, v \in IdentityValues :
           SetElement(id, cell[1], cell[2], v)
    \/ \E b \in DOMAIN heap : Multiply(1, b)

SpecIdentity == InitIdentity /\ [][NextIdentity]_vars

\* SpecShape: every way a matrix comes about, from shapes and indices that
\* include negative ones
ShapeShapes == {<<-1, -1>>, <<0, 2>>}

ShapeIndices == {-1, 1}

ShapeValues == {2}

InitShape == InitWith(ShapeShapes)

NextShape ==
    \/ \E id \in DOMAIN heap, r \in ShapeIndices, c \in ShapeIndices,
          v \in ShapeValues :
           SetElement(id, r, c, v)
    \/ \E b \in DOMAIN heap : Add(1, b)
    \/ \E b \in DOMAIN heap : Subtract(1, b)
    \/ \E b \in DOMAIN heap : Multiply(1, b)
    \/ \E p \in Paths : FromFile(p)

SpecShape == InitShape /\ [][NextShape]_vars

\* SpecIO: writes, saves and loads, with a value of 0, negative and two-digit
\* numbers
IOShapes == {<<-1, 3>>}

IORows == {-1, 1}

IOCols == {0, 12}

IOValues == {0, -12}

InitIO == InitWith(IOShapes)

NextIO ==
    \/ \E id \in DOMAIN heap, r \in IORows, c \in IOCols, v \in IOValues :
           SetElement(id, r, c, v)
    \/ \E id \in DOMAIN heap : SaveToFile(id, OutPath)
    \/ FromFile(OutPath)

SpecIO == InitIO /\ [][NextIO]_vars

-----------------------------------------------------------------------------
(* What the claims are stated with *)

\* the coordinates the claims read: every index the calls use, and more
Probe == (-2 .. 3) \cup {12}

\* the key of each probed coordinate
ProbeKey == [r \in Probe, c \in Probe |-> KeyOf(r, c)]

ProbeKeys == {ProbeKey[r, c] : r \in Probe, c \in Probe}

\* m stores an entry at (r, c)
Has(m, r, c) == DictHas(m.elements, ProbeKey[r, c])

\* m.get_element(r, c)
Get(m, r, c) == get_element(<<m>>, 1, r, c)

ArithmeticOps == {"add", "subtract", "multiply"}

\* the operands and the result of the latest call.  Add, Subtract and
\* Multiply leave the caller's objects as they were (C5), so in a state whose
\* latest call is one of them the operands are as they were passed.
Self == heap[last.self]

Other == heap[last.other]

Ret == last.ret

Succeeded(op) == last.op = op /\ last.err = ""

RECURSIVE ProductSum(_, _, _, _, _)
\* the sum of v1 * v2 over the entries (i, k) -> v1 of a and (k, j) -> v2 of b,
\* for k in ks
ProductSum(a, b, i, j, ks) ==
    IF ks = {} THEN 0
    ELSE LET k == CHOOSE x \in ks : TRUE
         IN  (IF Has(a, i, k) /\ Has(b, k, j)
              THEN Get(a, i, k) * Get(b, k, j) ELSE 0)
             + ProductSum(a, b, i, j, ks \ {k})

\* the number of such pairs of entries
Pairs(a, b, i, j) == Cardinality({k \in Probe : Has(a, i, k) /\ Has(b, k, j)})

-----------------------------------------------------------------------------
(* Claims *)

\* C1: add(A, B) on matrices of equal shape returns a matrix whose keys are
\* the union of A's and B's keys and whose value at every (r, c) is
\* A.get_element(r, c) + B.get_element(r, c).
C1_AddIsUnionOfKeysWithSums ==
    Succeeded("add") =>
        /\ DictKeys(Ret.elements)
               = DictKeys(Self.elements) \cup DictKeys(Other.elements)
        /\ \A r \in Probe, c \in Probe :
               Get(Ret, r, c) = Get(Self, r, c) + Get(Other, r, c)

\* an add of two distinct matrices with a key in both and a key in one only
C1_Witness ==
    /\ Succeeded("add") /\ last.self # last.other
    /\ \E r \in Probe, c \in Probe : Has(Self, r, c) /\ Has(Other, r, c)
    /\ \E r \in Probe, c \in Probe : Has(Self, r, c) /\ ~Has(Other, r, c)

\* C2: multiply(A, B) with A.num_cols = B.num_rows returns R with R(i, j) the
\* sum of v1 * v2 over the pairs of entries (i, k) -> v1 of A and (k, j) -> v2
\* of B, and R stores (i, j) exactly when there is such a pair.
C2_MultiplyIsSumOfProducts ==
    Succeeded("multiply") =>
        /\ DictKeys(Ret.elements) \subseteq ProbeKeys
        /\ \A i \in Probe, j \in Probe :
               /\ Get(Ret, i, j) = ProductSum(Self, Other, i, j, Probe)
               /\ Has(Ret, i, j) <=> Pairs(Self, Other, i, j) > 0

\* a product with an entry that sums two products
C2_Witness ==
    /\ Succeeded("multiply")
    /\ \E i \in Probe, j \in Probe : Pairs(Self, Other, i, j) >= 2

\* C3: subtract(A, B) on matrices of equal shape returns a matrix whose keys
\* are exactly B's keys, with A.get_element(r, c) - B[r, c] at each; an entry
\* of A that B lacks reads as 0 in the result, and a difference of 0 is stored.
C3_SubtractKeepsOthersKeysOnly ==
    Succeeded("subtract") =>
        /\ DictKeys(Ret.elements) = DictKeys(Other.elements)
        /\ \A r \in Probe, c \in Probe :
               Get(Ret, r, c) = IF Has(Other, r, c)
                                THEN Get(Self, r, c) - Get(Other, r, c)
                                ELSE 0

\* a subtract that drops an entry of A and stores a difference of 0
C3_Witness ==
    /\ Succeeded("subtract")
    /\ \E r \in Probe, c \in Probe :
           Has(Self, r, c) /\ Get(Self, r, c) # 0 /\ ~Has(Ret, r, c)
    /\ \E r \in Probe, c \in Probe : Has(Ret, r, c) /\ Get(Ret, r, c) = 0

\* the shapes the operation named op refuses
Mismatch(op) ==
    IF op = "multiply" THEN Self.num_cols # Other.num_rows
    ELSE Self.num_rows # Other.num_rows \/ Self.num_cols # Other.num_cols

\* C4: add and subtract raise the dimension error exactly when the operands
\* differ in num_rows or num_cols, multiply exactly when self.num_cols differs
\* from other.num_rows; a call that raises returns no matrix, and every other
\* call returns one without error.
C4_DimensionMismatchRaises ==
    last.op \in ArithmeticOps =>
        IF Mismatch(last.op)
        THEN last.err = "ValueError" /\ last.ref = 0
        ELSE last.err = "" /\ last.ref # 0

\* an add refused for the columns alone
C4_Witness ==
    /\ last.op = "add" /\ last.err = "ValueError"
    /\ Self.num_rows = Other.num_rows /\ Self.num_cols # Other.num_cols

\* C5: add, subtract and multiply leave both operands as they were, whether
\* they return or raise, and what they return is an object that is neither
\* operand.
C5_OperandsUntouched ==
    [][last'.op \in ArithmeticOps =>
          /\ heap' = heap
          /\ last'.err = "" => last'.ref \notin DOMAIN heap]_vars

\* A.add(A) on a matrix with entries has returned
C5_Witness ==
    /\ Succeeded("add") /\ last.self = last.other
    /\ Self.elements # <<>> /\ Ret.elements # <<>>

\* C9: add and subtract return a matrix of the shape of self, multiply one
\* of self.num_rows by other.num_cols; the writes into the result never
\* enlarge it.
C9_ResultShape ==
    (last.op \in ArithmeticOps /\ last.err = "") =>
        /\ Ret.num_rows = Self.num_rows
        /\ Ret.num_cols = IF last.op = "multiply" THEN Other.num_cols
                          ELSE Self.num_cols

\* a product of a 2 x 1 by a 1 x 2 matrix, with entries in the last row and
\* the last column of the result
C9_Witness ==
    /\ Succeeded("multiply")
    /\ Self.num_rows = 2 /\ Self.num_cols = 1 /\ Other.num_cols = 2
    /\ Has(Ret, 1, 1)

\* the value of the caller's latest set_element on (r, c) of object id, or 0
\* when it made none
LatestWritten(id, r, c) ==
    IF \E t \in written[id] : t[1] = r /\ t[2] = c
    THEN (CHOOSE t \in written[id] : t[1] = r /\ t[2] = c)[3]
    ELSE 0

\* C6: after any sequence of set_element calls, get_element(r, c) is the
\* value of the latest set_element on (r, c), a 0 included, and 0 on every
\* coordinate never written, inside the shape or outside it; so a write to one
\* coordinate changes the value read at no other.
C6_GetReadsLatestWrite ==
    \A id \in DOMAIN heap : \A r \in Probe, c \in Probe :
        Get(heap[id], r, c) = LatestWritten(id, r, c)

\* a nonzero value overwritten with 0, the entry kept, on a matrix with a
\* second entry
C6_Witness ==
    /\ last.op = "set_element" /\ last.value = 0
    /\ nwrites = 3
    /\ heap[3 - last.self].elements = <<>>
    /\ Len(heap[last.self].elements) = 2
    /\ \E i \in 1..2 : heap[last.self].elements[i][2] # 0
    /\ Has(heap[last.self], last.row, last.col)

\* the dict as a mapping: the set of its <<key, value>> items
Mapping(d) == {d[i] : i \in 1..Len(d)}

StoresNoZero(m) == \A i \in 1..Len(m.elements) : m.elements[i][2] # 0

\* C7: a matrix with at least one entry and no stored 0, saved with
\* save_to_file and loaded back with from_file from the same path, gives a
\* matrix whose elements mapping equals the saved one's.
C7_RoundTrip ==
    [][(/\ last.op = "save_to_file"
        /\ last'.op = "from_file" /\ last'.path = last.path
        /\ heap[last.self].elements # <<>>
        /\ StoresNoZero(heap[last.self]))
       => /\ last'.err = ""
          /\ Mapping(last'.ret.elements) = Mapping(heap[last.self].elements)]_vars

\* the file holds the text of a matrix of the caller's with two entries, a
\* negative index, a two-digit index and a negative two-digit value, and the
\* load of it has returned
C7_Witness ==
    /\ last.op = "from_file" /\ last.path = OutPath /\ last.err = ""
    /\ \E id \in DOMAIN heap :
           /\ fs[OutPath].text = ToStr(heap[id])
           /\ StoresNoZero(heap[id])
           /\ Has(heap[id], -1, 12) /\ Has(heap[id], 1, 0)
           /\ Get(heap[id], -1, 12) = -12

\* m is the identity matrix of n rows and n columns
IsIdentity(m, n) ==
    /\ m.num_rows = n /\ m.num_cols = n
    /\ DictKeys(m.elements) = {KeyOf(k, k) : k \in 0 .. n - 1}
    /\ \A i \in 1..Len(m.elements) : m.elements[i][2] = 1

MultipliedByIdentity ==
    Succeeded("multiply") /\ IsIdentity(Other, Self.num_cols)

SameReads(a, b) == \A r \in Probe, c \in Probe : Get(a, r, c) = Get(b, r, c)

\* C8 as claimed: multiplying any matrix M by the identity matrix of
\* M.num_cols rows and columns gives a matrix that reads as M does at every
\* coordinate.
C8_AnyMatrixTimesIdentity == MultipliedByIdentity => SameReads(Ret, Self)

\* C8 as it holds: multiplying a matrix M none of whose entries has a negative
\* column index by the identity matrix of M.num_cols rows and columns gives a
\* matrix that reads as M does at every coordinate.
C8_TimesIdentity ==
    (/\ MultipliedByIdentity
     /\ \A r \in Probe, c \in Probe : Has(Self, r, c) => c >= 0)
        => SameReads(Ret, Self)

\* a 2 x 2 matrix with an entry off the diagonal, multiplied by the 2 x 2
\* identity
C8_Witness ==
    /\ MultipliedByIdentity /\ last.self # last.other
    /\ Self.num_cols = 2
    /\ Has(Self, 0, 1) /\ Get(Self, 0, 1) = -1
    /\ \A r \in Probe, c \in Probe : Has(Self, r, c) => c >= 0

\* every key of m is inside its shape from above
KeysInsideShape(m) ==
    /\ DictKeys(m.elements) \subseteq ProbeKeys
    /\ \A r \in Probe, c \in Probe :
           Has(m, r, c) => r < m.num_rows /\ c < m.num_cols

\* a set_element step never shrinks the shape, and leaves it alone when the
\* coordinate is below num_rows and num_cols
SetElementGrowsOnly ==
    last'.op = "set_element" =>
        LET before == heap[last'.self]
            after  == heap'[last'.self]
        IN  /\ after.num_rows >= before.num_rows
            /\ after.num_cols >= before.num_cols
            /\ (last'.row < before.num_rows /\ last'.col < before.num_cols)
                   => /\ after.num_rows = before.num_rows
                      /\ after.num_cols = before.num_cols

\* C10: in every matrix built by the constructor and set_element calls, and in
\* every matrix from_file, add, subtract or multiply returns, each stored key
\* (r, c) has r < num_rows and c < num_cols; set_element never decreases
\* num_rows or num_cols and leaves them unchanged when r < num_rows and
\* c < num_cols.
C10_KeysInsideShape ==
    /\ [](/\ \A id \in DOMAIN heap : KeysInsideShape(heap[id])
          /\ last.ref # 0 => KeysInsideShape(last.ret))
    /\ [][SetElementGrowsOnly]_vars

\* the load of the file whose element is outside its header's shape has
\* returned, and the caller holds a matrix grown from a negative shape
C10_Witness ==
    /\ last.op = "from_file" /\ last.path = GrowPath /\ last.err = ""
    /\ last.ret.num_rows = 2 /\ last.ret.num_cols = 3
    /\ Has(last.ret, 1, 2)
    /\ \E id \in DOMAIN heap :
           heap[id].num_rows = 0 /\ Has(heap[id], -1, -1)

====
